---- MODULE Spec2Model ----
(***************************************************************************)
(* rFOrLSR/Tools: the non-linear analysis tools ComputeERR,                *)
(* ExpansionOrderEstimator and MaxLagsEstimator as state machines.         *)
(*                                                                         *)
(* Floating point numbers are modelled as binary fixed point numbers with  *)
(* PrecBits fractional bits: a stored value v stands for v / Scale, every  *)
(* division rounds to the nearest representable value, and the IEEE value  *)
(* NaN is kept as a value of its own that every comparison answers with    *)
(* FALSE.  Squared norms and dot products are kept with 2 * PrecBits       *)
(* fractional bits so that, as with floats, only the squared norm of an    *)
(* exactly zero vector is zero.                                            *)
(***************************************************************************)
EXTENDS Integers, Sequences, FiniteSets, TLC

\* ------------------------------------------------------------------ bounds
PrecBits == 5     \* fractional bits of the fixed point numbers
SampleLen == 3    \* the signals have SampleLen samples
MaxVal == 2       \* sample values of y and of the columns of Ds are -MaxVal..MaxVal
MaxQ == 3         \* Ds has at most MaxQ columns
MaxOrderArg == 3  \* the MaxOrder / ModelOrder argument is at most MaxOrderArg
MaxLagSum == 2    \* MaxLags[0] + MaxLags[1] is at most MaxLagSum

RECURSIVE Pow2(_)
Pow2(n) == IF n = 0 THEN 1 ELSE 2 * Pow2(n - 1)

Scale == Pow2(PrecBits)
One == Scale                       \* the float 1.0
NaN == -1000000000                 \* np.nan / a non-finite float

\* ------------------------------------------------------- float arithmetic
IsNaN(a) == a = NaN

\* n / d rounded to the nearest integer (d > 0), halves upwards
RoundDiv(n, d) == (2 * n + d) \div (2 * d)

\* a >= b, a > b, a < b, a == b on floats: FALSE as soon as one side is NaN
FGe(a, b) == ~IsNaN(a) /\ ~IsNaN(b) /\ a >= b
FGt(a, b) == ~IsNaN(a) /\ ~IsNaN(b) /\ a > b
FLt(a, b) == ~IsNaN(a) /\ ~IsNaN(b) /\ a < b
FEq(a, b) == ~IsNaN(a) /\ ~IsNaN(b) /\ a = b

FAdd(a, b) == IF IsNaN(a) \/ IsNaN(b) THEN NaN ELSE a + b

\* np.sum of the first n entries of a vector
RECURSIVE FSumTo(_, _)
FSumTo(v, n) == IF n = 0 THEN 0 ELSE FAdd(FSumTo(v, n - 1), v[n])

FSum(v) == FSumTo(v, Len(v))

\* Python's builtin min( a, b ): a unless b < a, so min( 1.0, nan ) is 1.0
PyMinFlipped(a, b) == IF FLt(a, b) THEN a ELSE b
PyMin(a, b) == IF FLt(b, a) THEN b ELSE a

HasNaN(v) == \E i \in 1..Len(v) : IsNaN(v[i])

\* u @ v for two vectors with PrecBits fractional bits: exact, 2 * PrecBits bits
RECURSIVE DotTo(_, _, _)
DotTo(u, v, n) == IF n = 0 THEN 0 ELSE DotTo(u, v, n - 1) + u[n] * v[n]

Dot(u, v) == IF HasNaN(u) \/ HasNaN(v) THEN NaN ELSE DotTo(u, v, Len(u))

\* HF.Norm2: the squared euclidean norm, not guarded against zero
Norm2(v) == Dot(v, v)

\* the integer samples of a signal as floats
ToFloat(v) == [i \in 1..Len(v) |-> v[i] * Scale]

\* ------------------------------------------------------------ ComputeERR
\* Omega / n_Omega, elementwise: 0 / 0 is NaN
DivByNorm(Omega, n) ==
  [i \in 1..Len(Omega) |->
     IF IsNaN(n) \/ IsNaN(Omega[i]) \/ n = 0 THEN NaN
     ELSE RoundDiv(Omega[i] * Scale * Scale, n)]

\* ( Psi.T @ d ): one coefficient per stored column
Coefs(Psi, d) == [j \in 1..Len(Psi) |-> Dot(Psi[j], d)]

\* entry i of Psi_n @ c
RECURSIVE ProjTo(_, _, _, _)
ProjTo(Psi_n, c, i, n) ==
  IF n = 0 THEN 0
  ELSE IF IsNaN(Psi_n[n][i]) \/ IsNaN(c[n]) THEN NaN
  ELSE FAdd(ProjTo(Psi_n, c, i, n - 1), Psi_n[n][i] * c[n])

\* Ds[:, col] - Psi_n @ ( Psi.T @ Ds[:, col] )
Orthogonalize(d, Psi, Psi_n) ==
  LET c == Coefs(Psi, d)
  IN  [i \in 1..Len(d) |->
         LET s == ProjTo(Psi_n, c, i, Len(Psi))
         IN  IF IsNaN(s) THEN NaN ELSE d[i] - RoundDiv(s, Scale * Scale)]

\* ( Psi_n.T @ y ).item() of the first column
W0(Psi_n0, y) ==
  LET s == Dot(Psi_n0, y) IN IF IsNaN(s) THEN NaN ELSE RoundDiv(s, Scale)

\* a zero norm is guarded: the quotient is taken as 0
WZeroGuard(Omega, y, n) ==
  LET s == Dot(Omega, y)
  IN  IF IsNaN(s) \/ IsNaN(n) THEN NaN
      ELSE IF n = 0 THEN 0 ELSE RoundDiv(s * Scale, n)

\* ( Omega @ y ).item() / n_Omega
W(Omega, y, n) ==
  LET s == Dot(Omega, y)
  IN  IF IsNaN(s) \/ IsNaN(n) \/ n = 0 THEN NaN ELSE RoundDiv(s * Scale, n)

\* w**2 * n_Omega / s2y
ERRValueNoSquare(w, n, s2y) ==
  IF IsNaN(w) \/ IsNaN(n) \/ s2y = 0 THEN NaN
  ELSE RoundDiv(w * n, s2y)
ERRValue(w, n, s2y) ==
  IF IsNaN(w) \/ IsNaN(n) \/ s2y = 0 THEN NaN
  ELSE RoundDiv(w * w * n, s2y * Scale)

\* np.sum( ERR[:col] ) >= 1
SaturatedStrict(ERR, col) == FGt(FSumTo(ERR, col), One)
Saturated(ERR, col) == FGe(FSumTo(ERR, col), One)

\* the sum of the first n samples of an integer vector
RECURSIVE SumTo(_, _)
SumTo(v, n) == IF n = 0 THEN 0 ELSE SumTo(v, n - 1) + v[n]

\* the centered sample vectors: both callers subtract the mean from y and
\* from every column of Ds before they call ComputeERR
Vecs == {v \in [1..SampleLen -> (0 - MaxVal)..MaxVal] : SumTo(v, SampleLen) = 0}

\* ----------------------------------------------------- state: ComputeERR
VARIABLES y, Ds, ERR, Psi, Psi_n, col, pcE

varsE == <<y, Ds, ERR, Psi, Psi_n, col, pcE>>

\* ------------------------------------------------- state: the estimators
\* fn is the function called; xShape, yShape are x.shape and y.shape;
\* OrderArg is the MaxOrder / ModelOrder argument (a number and whether it is
\* an int); V[na][nb] is np.sum( ComputeERR( ... ) ) of the dictionary that
\* Lagger and Expander build for the lags ( nb, na ); calls are the calls made
\* to CTors.Lagger, CTors.Expander and ComputeERR; out is what was printed.
VARIABLES fn, xShape, yShape, OrderArg, MaxLags, Thr,
          ModelOrder, ModelExplainedVariance,
          V, Grid, na, nb, Recommendations,
          calls, out, pc

varsS == <<fn, xShape, yShape, OrderArg, MaxLags, Thr, ModelOrder,
           ModelExplainedVariance, V, Grid, na, nb, Recommendations,
           calls, out, pc>>

vars == <<y, Ds, ERR, Psi, Psi_n, col, pcE, fn, xShape, yShape, OrderArg,
          MaxLags, Thr, ModelOrder, ModelExplainedVariance, V, Grid, na, nb,
          Recommendations, calls, out, pc>>

\* a call ComputeERR( y, Ds ) with q >= 1 columns
InitE ==
  /\ y \in Vecs
  /\ \E q \in 1..MaxQ : Ds \in [1..q -> Vecs]
  /\ ERR = <<>>
  /\ Psi = <<>>
  /\ Psi_n = <<>>
  /\ col = 0
  /\ pcE = "start"

s2y == Dot(ToFloat(y), ToFloat(y))

\* lines 258-266: the ERR array of zeros and the first column
FirstColumn ==
  /\ pcE = "start"
  /\ LET Omega == ToFloat(Ds[1])
         n == Norm2(Omega)
         Pn == DivByNorm(Omega, n)
     IN  /\ Psi' = <<Omega>>
         /\ Psi_n' = <<Pn>>
         /\ ERR' = [[i \in 1..Len(Ds) |-> 0] EXCEPT ![1] = ERRValue(W0(Pn, ToFloat(y)), n, s2y)]
  /\ col' = 1
  /\ pcE' = "loop"
  /\ UNCHANGED varsS
  /\ UNCHANGED <<y, Ds>>

\* line 269: the early exit, R[1/2]
EarlyExit ==
  /\ pcE = "loop"
  /\ col < Len(Ds)
  /\ Saturated(ERR, col)
  /\ pcE' = "done"
  /\ UNCHANGED varsS
  /\ UNCHANGED <<y, Ds, ERR, Psi, Psi_n, col>>

\* lines 271-277: one more column
NextColumn ==
  /\ pcE = "loop"
  /\ col < Len(Ds)
  /\ ~Saturated(ERR, col)
  /\ LET Omega == Orthogonalize(ToFloat(Ds[col + 1]), Psi, Psi_n)
         n == Norm2(Omega)
     IN  /\ ERR' = [ERR EXCEPT ![col + 1] = ERRValue(W(Omega, ToFloat(y), n), n, s2y)]
         /\ Psi' = Append(Psi, Omega)
         /\ Psi_n' = Append(Psi_n, DivByNorm(Omega, n))
  /\ col' = col + 1
  /\ UNCHANGED varsS
  /\ UNCHANGED <<y, Ds, pcE>>

\* line 279: the loop is exhausted, R[2/2]
Return ==
  /\ pcE = "loop"
  /\ col = Len(Ds)
  /\ pcE' = "done"
  /\ UNCHANGED varsS
  /\ UNCHANGED <<y, Ds, ERR, Psi, Psi_n, col>>

NextE == FirstColumn \/ EarlyExit \/ NextColumn \/ Return

\* no call of ComputeERR is in progress
IdleE ==
  /\ y = <<>>
  /\ Ds = <<>>
  /\ ERR = <<>>
  /\ Psi = <<>>
  /\ Psi_n = <<>>
  /\ col = 0
  /\ pcE = "idle"

\* ------------------------------------------- arguments of the estimators
XShapes == {<<SampleLen>>, <<SampleLen, 1>>}
YShapes == {<<SampleLen>>, <<SampleLen + 1>>, <<SampleLen, 1>>}
OrderArgs == [int : BOOLEAN, val : (0 - 1)..MaxOrderArg]
LagOrderArgs == [int : BOOLEAN, val : 0..1]
LagPairs == {m \in (0..MaxLagSum) \X (0..MaxLagSum) : m[1] + m[2] <= MaxLagSum}

\* VarianceAcceptThreshold, in (0, 1]
Thresholds == {One - 2, One - 1, One}

\* the values np.sum( ComputeERR( ... ) ) takes: below 1, above 1, non-finite
RawSums == {One - 2, One - 1, One + 1, NaN}

\* lines 302-303 and 373-374
ShapeMismatch == xShape # yShape
NotOneDim == Len(xShape) # 1 \/ Len(yShape) # 1

\* lines 304 and 375
BadOrderLoose == OrderArg.val < 0 \/ ~OrderArg.int
BadOrder == OrderArg.val < 1 \/ ~OrderArg.int

\* lines 376-377
BadSaveFig(plot, saveFig) == saveFig # "None" /\ ~plot

Call(f, a) == [f |-> f, arg |-> a]

NoGrid == [i \in 0..0 |-> [j \in 0..0 |-> NaN]]
NoRecommendations == [Min_XY |-> <<0, 0>>, Min_X |-> <<0, 0>>, Min_Y |-> <<0, 0>>]

\* no estimator is called
IdleS ==
  /\ fn = "ComputeERR"
  /\ xShape = <<>>
  /\ yShape = <<>>
  /\ OrderArg = [int |-> TRUE, val |-> 1]
  /\ MaxLags = <<0, 0>>
  /\ Thr = One
  /\ ModelOrder = 0
  /\ ModelExplainedVariance = <<>>
  /\ V = NoGrid
  /\ Grid = NoGrid
  /\ na = 0
  /\ nb = 0
  /\ Recommendations = NoRecommendations
  /\ calls = <<>>
  /\ out = <<>>
  /\ pc = "idle"

\* ----------------------------------------------- ExpansionOrderEstimator
\* a call ExpansionOrderEstimator( x, y, MaxLags, MaxOrder, VarianceAcceptThreshold )
InitOrder ==
  /\ fn = "ExpansionOrderEstimator"
  /\ xShape \in XShapes
  /\ yShape \in YShapes
  /\ OrderArg \in OrderArgs
  /\ MaxLags = <<1, 1>>
  /\ Thr \in Thresholds
  /\ ModelOrder = 0
  /\ ModelExplainedVariance = <<>>
  /\ V = NoGrid
  /\ Grid = NoGrid
  /\ na = 0
  /\ nb = 0
  /\ Recommendations = NoRecommendations
  /\ calls = <<>>
  /\ out = <<>>
  /\ pc = "start"

\* lines 302-304: the defensive checks raise
OrderRaise ==
  /\ fn = "ExpansionOrderEstimator"
  /\ pc = "start"
  /\ ShapeMismatch \/ NotOneDim \/ BadOrder
  /\ pc' = "raised"
  /\ UNCHANGED varsE
  /\ UNCHANGED <<fn, xShape, yShape, OrderArg, MaxLags, Thr, ModelOrder,
                 ModelExplainedVariance, V, Grid, na, nb, Recommendations,
                 calls, out>>

\* lines 306-313: the variance list seeded with 0, the lagged dictionary
OrderLagger ==
  /\ fn = "ExpansionOrderEstimator"
  /\ pc = "start"
  /\ ~(ShapeMismatch \/ NotOneDim \/ BadOrder)
  /\ ModelExplainedVariance' = <<0>>
  /\ calls' = Append(calls, Call("Lagger", MaxLags))
  /\ pc' = "loop"
  /\ UNCHANGED varsE
  /\ UNCHANGED <<fn, xShape, yShape, OrderArg, MaxLags, Thr, ModelOrder,
                 V, Grid, na, nb, Recommendations, out>>

\* line 324: ModelExplainedVariance[-1] >= VarianceAcceptThreshold
ThresholdMetStrict(v, thr) == FGt(v, thr)
ThresholdMet(v, thr) == FGe(v, thr)

\* lines 316-324: one iteration of the loop over range( 1, MaxOrder + 1 )
OrderIterate ==
  /\ fn = "ExpansionOrderEstimator"
  /\ pc = "loop"
  /\ ModelOrder < OrderArg.val
  /\ \E s \in RawSums :
       LET ModelErr == PyMin(One, s)
       IN  /\ ModelExplainedVariance' = Append(ModelExplainedVariance, ModelErr)
           /\ pc' = IF ThresholdMet(ModelErr, Thr) \/ ModelOrder + 1 = OrderArg.val
                    THEN "after" ELSE "loop"
  /\ ModelOrder' = ModelOrder + 1
  /\ calls' = calls \o <<Call("Expander", <<ModelOrder + 1>>), Call("ComputeERR", <<ModelOrder + 1>>)>>
  /\ UNCHANGED varsE
  /\ UNCHANGED <<fn, xShape, yShape, OrderArg, MaxLags, Thr, V, Grid, na, nb,
                 Recommendations, out>>

\* line 328: ModelExplainedVariance[-1] < VarianceAcceptThreshold
InsufficientReversed(v, thr) == FGt(v, thr)
Insufficient(v, thr) == FLt(v, thr)

\* lines 326-346: the diagnostic and the return of ( ModelOrder, ModelExplainedVariance )
OrderReport ==
  /\ fn = "ExpansionOrderEstimator"
  /\ pc = "after"
  /\ out' = Append(out,
              IF Insufficient(ModelExplainedVariance[Len(ModelExplainedVariance)], Thr)
              THEN "The VarianceAcceptThreshold was not met"
              ELSE "An order model was selected")
  /\ pc' = "done"
  /\ UNCHANGED varsE
  /\ UNCHANGED <<fn, xShape, yShape, OrderArg, MaxLags, Thr, ModelOrder,
                 ModelExplainedVariance, V, Grid, na, nb, Recommendations, calls>>

NextOrder == OrderRaise \/ OrderLagger \/ OrderIterate \/ OrderReport

\* ------------------------------------------------------ MaxLagsEstimator
Rows == 0..MaxLags[2]
Cols == 0..MaxLags[1]

\* a call MaxLagsEstimator( x, y, ModelOrder, MaxLags, VarianceAcceptThreshold )
InitLags ==
  /\ fn = "MaxLagsEstimator"
  /\ xShape \in XShapes
  /\ yShape \in YShapes
  /\ OrderArg \in LagOrderArgs
  /\ MaxLags \in LagPairs
  /\ Thr \in Thresholds
  /\ ModelOrder = 0
  /\ ModelExplainedVariance = <<>>
  /\ IF ShapeMismatch \/ NotOneDim \/ BadOrder
     THEN V = [i \in Rows |-> [j \in Cols |-> NaN]]
     ELSE V \in [Rows -> [Cols -> RawSums]]
  /\ Grid = NoGrid
  /\ na = 0
  /\ nb = 0
  /\ Recommendations = NoRecommendations
  /\ calls = <<>>
  /\ out = <<>>
  /\ pc = "start"

\* lines 373-377: the defensive checks raise
LagsRaise ==
  /\ fn = "MaxLagsEstimator"
  /\ pc = "start"
  /\ \/ ShapeMismatch \/ NotOneDim \/ BadOrder
     \/ \E plot \in BOOLEAN, saveFig \in {"None", "fig.png"} : BadSaveFig(plot, saveFig)
  /\ pc' = "raised"
  /\ UNCHANGED varsE
  /\ UNCHANGED <<fn, xShape, yShape, OrderArg, MaxLags, Thr, ModelOrder,
                 ModelExplainedVariance, V, Grid, na, nb, Recommendations,
                 calls, out>>

\* lines 380-386: the grid of np.nan
LagsBegin ==
  /\ fn = "MaxLagsEstimator"
  /\ pc = "start"
  /\ ~(ShapeMismatch \/ NotOneDim \/ BadOrder)
  /\ \E plot \in BOOLEAN, saveFig \in {"None", "fig.png"} : ~BadSaveFig(plot, saveFig)
  /\ out' = Append(out, "Computing the Grid")
  /\ Grid' = [i \in Rows |-> [j \in Cols |-> NaN]]
  /\ na' = 0
  /\ nb' = 0
  /\ pc' = "fill"
  /\ UNCHANGED varsE
  /\ UNCHANGED <<fn, xShape, yShape, OrderArg, MaxLags, Thr, ModelOrder,
                 ModelExplainedVariance, V, Recommendations, calls>>

\* max( a - 1, 0 )
Max0(a) == IF a - 1 > 0 THEN a - 1 ELSE 0

\* a previous cell outside the grid is taken as being at 1.0
DominatedEdge(G, i, j) ==
  /\ (i = 0 \/ FEq(G[i - 1][j], One))
  /\ (j = 0 \/ FEq(G[i][j - 1], One))

\* one previous cell at 1.0 is taken as enough
DominatedEither(G, i, j) == FEq(G[Max0(i)][j], One) \/ FEq(G[i][Max0(j)], One)

\* line 393: both previous cells are exactly 1.0
Dominated(G, i, j) == FEq(G[Max0(i)][j], One) /\ FEq(G[i][Max0(j)], One)

\* the loop variables after the cell ( na, nb ): row-major, na outer
Advance ==
  IF nb < MaxLags[1] THEN na' = na /\ nb' = nb + 1 /\ pc' = "fill"
  ELSE IF na < MaxLags[2] THEN na' = na + 1 /\ nb' = 0 /\ pc' = "fill"
  ELSE na' = na /\ nb' = nb /\ pc' = "recommend"

\* lines 393-394: the cell is set to 1.0 without recomputation
LagsShortcut ==
  /\ fn = "MaxLagsEstimator"
  /\ pc = "fill"
  /\ Dominated(Grid, na, nb)
  /\ Grid' = [Grid EXCEPT ![na][nb] = One]
  /\ Advance
  /\ UNCHANGED varsE
  /\ UNCHANGED <<fn, xShape, yShape, OrderArg, MaxLags, Thr, ModelOrder,
                 ModelExplainedVariance, V, Recommendations, calls, out>>

\* lines 396-401: the cell is computed for the lags ( nb, na )
LagsCompute ==
  /\ fn = "MaxLagsEstimator"
  /\ pc = "fill"
  /\ ~Dominated(Grid, na, nb)
  /\ calls' = calls \o <<Call("Lagger", <<nb, na>>),
                         Call("Expander", <<nb, na>>),
                         Call("ComputeERR", <<nb, na>>)>>
  /\ Grid' = [Grid EXCEPT ![na][nb] = PyMin(One, V[na][nb])]
  /\ Advance
  /\ UNCHANGED varsE
  /\ UNCHANGED <<fn, xShape, yShape, OrderArg, MaxLags, Thr, ModelOrder,
                 ModelExplainedVariance, V, Recommendations, out>>

\* line 416: Grid[ na, nb ] > VarianceAcceptThreshold
Exceeds(G, i, j, thr) == FGt(G[i][j], thr)

\* line 417: na + nb < BestIdx
BetterOrEqual(s, best) == s <= best
Better(s, best) == s < best

\* lines 412-419: the scan for Min_XY from the cell number k on, row-major;
\* best is BestIdx (np.inf is a value above every na + nb), rec the entry so far
RECURSIVE ScanXY(_, _, _, _, _, _)
ScanXY(G, thr, m, k, best, rec) ==
  IF k = (m[1] + 1) * (m[2] + 1) THEN rec
  ELSE LET i == k \div (m[1] + 1)
           j == k % (m[1] + 1)
       IN  IF Exceeds(G, i, j, thr) /\ Better(i + j, best)
           THEN ScanXY(G, thr, m, k + 1, i + j, <<j, i>>)
           ELSE ScanXY(G, thr, m, k + 1, best, rec)

\* the first index at or above the threshold, 0 if none is
ArgMaxGe(f, n, thr) ==
  IF \E i \in 0..n : FGe(f[i], thr)
  THEN CHOOSE i \in 0..n : FGe(f[i], thr) /\ \A k \in 0..(i - 1) : ~FGe(f[k], thr)
  ELSE 0

\* np.argmax( f > thr ) over the indices 0..n: the first index that exceeds, 0 if none does
ArgMaxGt(f, n, thr) ==
  IF \E i \in 0..n : FGt(f[i], thr)
  THEN CHOOSE i \in 0..n : FGt(f[i], thr) /\ \A k \in 0..(i - 1) : ~FGt(f[k], thr)
  ELSE 0

\* lines 421-423: the scan for Min_Y from the row i on
RECURSIVE ScanY(_, _, _, _)
ScanY(G, thr, m, i) ==
  IF i > m[2] THEN <<m[1], m[2]>>
  ELSE LET BestIdx == ArgMaxGt(G[i], m[1], thr)
       IN  IF BestIdx # 0 THEN <<BestIdx, i>> ELSE ScanY(G, thr, m, i + 1)

\* lines 425-427: the scan for Min_X from the column j on
RECURSIVE ScanX(_, _, _, _)
ScanX(G, thr, m, j) ==
  IF j > m[1] THEN <<m[1], m[2]>>
  ELSE LET BestIdx == ArgMaxGt([i \in 0..m[2] |-> G[i][j]], m[2], thr)
       IN  IF BestIdx # 0 THEN <<j, BestIdx>> ELSE ScanX(G, thr, m, j + 1)

\* np.max( Grid ): NaN as soon as a cell is NaN
GridMax(G, m) ==
  IF \E i \in 0..m[2], j \in 0..m[1] : IsNaN(G[i][j]) THEN NaN
  ELSE CHOOSE v \in {G[i][j] : i \in 0..m[2], j \in 0..m[1]} :
         \A i \in 0..m[2], j \in 0..m[1] : G[i][j] <= v

\* line 430: np.max( Grid ) < VarianceAcceptThreshold
WarnsOrEqual(G, m, thr) == FGe(thr, GridMax(G, m))
Warns(G, m, thr) == FLt(GridMax(G, m), thr)

\* lines 407-430: the three recommendations and the warning
LagsRecommend ==
  /\ fn = "MaxLagsEstimator"
  /\ pc = "recommend"
  /\ Recommendations' =
       [Min_XY |-> ScanXY(Grid, Thr, MaxLags, 0, MaxLags[1] + MaxLags[2] + 1, MaxLags),
        Min_X |-> ScanX(Grid, Thr, MaxLags, 0),
        Min_Y |-> ScanY(Grid, Thr, MaxLags, 0)]
  /\ out' = IF Warns(Grid, MaxLags, Thr)
            THEN Append(out, "WARNING: The passed MaxLags don't suffise")
            ELSE out
  /\ pc' = "done"
  /\ UNCHANGED varsE
  /\ UNCHANGED <<fn, xShape, yShape, OrderArg, MaxLags, Thr, ModelOrder,
                 ModelExplainedVariance, V, Grid, na, nb, calls>>

NextLags == LagsRaise \/ LagsBegin \/ LagsShortcut \/ LagsCompute \/ LagsRecommend

\* -------------------------------------------------------- specifications
\* calls of ComputeERR
InitERR == InitE /\ IdleS

SpecERR == InitERR /\ [][NextE]_vars

\* calls of ExpansionOrderEstimator and of MaxLagsEstimator
Init == (InitOrder \/ InitLags) /\ IdleE

Next == NextOrder \/ NextLags

Spec == Init /\ [][Next]_vars

C2_SumInUnitInterval ==
  pcE = "done" =>
    \/ IsNaN(FSum(ERR))
    \/ (FGe(FSum(ERR), 0) /\ FGe(One, FSum(ERR)))

\* C2 amended: the value min( 1.0, np.sum( ERR ) ) that both callers take lies
\* in [0, 1]; when no entry is non-finite every entry is >= 0 and the sum of
\* the entries before the last processed column is < 1 (the last processed
\* entry itself can push the total above 1).
C2_ClippedSumInUnitInterval ==
  pcE = "done" =>
    /\ FGe(PyMin(One, FSum(ERR)), 0)
    /\ FGe(One, PyMin(One, FSum(ERR)))
    /\ ~HasNaN(ERR) =>
         /\ \A i \in 1..Len(ERR) : ERR[i] >= 0
         /\ FLt(FSumTo(ERR, Len(Psi) - 1), One)

\* C2 witness: a returned ERR vector whose sum exceeds 1
C2_Witness ==
  /\ pcE = "done"
  /\ FGt(FSum(ERR), One)

\* ----------------------------------- claims on ExpansionOrderEstimator
OrderDone == fn = "ExpansionOrderEstimator" /\ pc = "done"

\* some evaluated order reached the threshold
ThresholdReached ==
  \E i \in 2..Len(ModelExplainedVariance) : FGe(ModelExplainedVariance[i], Thr)

ExpanderCalls == SelectSeq(calls, LAMBDA c : c.f = "Expander")

InvalidArgs ==
  \/ xShape # yShape
  \/ Len(xShape) # 1
  \/ Len(yShape) # 1
  \/ ~(OrderArg.int /\ OrderArg.val >= 1)

\* C5: with x and y of different shapes, x or y not 1-dimensional, or an
\* order argument that is not an int >= 1, the only step either estimator
\* takes is the raise of the validation error: no call of Lagger, Expander
\* or ComputeERR is made, no variance entry and no grid cell is computed.
C5_ValidationFirst ==
  [][(fn \in {"ExpansionOrderEstimator", "MaxLagsEstimator"} /\ InvalidArgs) =>
       /\ pc = "start"
       /\ pc' = "raised"
       /\ calls' = <<>>
       /\ ModelExplainedVariance' = <<>>
       /\ Grid' = NoGrid
       /\ out' = <<>>]_vars

\* C5 witness: a call with invalid arguments has raised
C5_Witness ==
  /\ pc = "raised"
  /\ InvalidArgs
  /\ calls = <<>>

\* ------------------------------------------ claims on MaxLagsEstimator
LagsDone == fn = "MaxLagsEstimator" /\ pc = "done"

\* the cells ( na, nb ) whose value is strictly above the threshold
ExceedSet == {c \in Rows \X Cols : Grid[c[1]][c[2]] # NaN /\ Grid[c[1]][c[2]] > Thr}

Warned == \E k \in 1..Len(out) : out[k] = "WARNING: The passed MaxLags don't suffise"

\* C6: Min_XY is ( nb, na ) of the cell with the smallest na + nb among the
\* cells strictly above the threshold, the one with the smallest na among
\* those of that sum; a cell equal to the threshold is never chosen.
C6_MinXY ==
  (LagsDone /\ ExceedSet # {}) =>
    \E c \in ExceedSet :
      /\ Recommendations.Min_XY = <<c[2], c[1]>>
      /\ \A d \in ExceedSet :
           \/ c[1] + c[2] < d[1] + d[2]
           \/ (c[1] + c[2] = d[1] + d[2] /\ c[1] <= d[1])

\* C6 witness: two cells above the threshold tie on the smallest sum and a
\* cell of a smaller sum equals the threshold
C6_Witness ==
  /\ LagsDone
  /\ \E c \in ExceedSet, d \in ExceedSet :
       /\ c # d
       /\ c[1] + c[2] = d[1] + d[2]
       /\ \A e \in ExceedSet : c[1] + c[2] <= e[1] + e[2]
       /\ \E e \in Rows \X Cols : Grid[e[1]][e[2]] = Thr /\ e[1] + e[2] < c[1] + c[2]

\* C7: whenever a cell exceeds the threshold, Min_Y is the exceeding position
\* with the smallest output lag and, in that row, the smallest input lag, and
\* Min_X the exceeding position with the smallest input lag and, in that
\* column, the smallest output lag; also with the cell at lag 0.
C7_MinYMinX ==
  (LagsDone /\ ExceedSet # {}) =>
    /\ \E c \in ExceedSet :
         /\ Recommendations.Min_Y = <<c[2], c[1]>>
         /\ \A d \in ExceedSet : c[1] < d[1] \/ (c[1] = d[1] /\ c[2] <= d[2])
    /\ \E c \in ExceedSet :
         /\ Recommendations.Min_X = <<c[2], c[1]>>
         /\ \A d \in ExceedSet : c[2] < d[2] \/ (c[2] = d[2] /\ c[1] <= d[1])

\* C8: if no cell exceeds the threshold (the grid maximum may equal it), the
\* warning is printed and the three recommendations are the corner MaxLags.
C8_NoneExceeds ==
  (LagsDone /\ ExceedSet = {}) =>
    /\ Warned
    /\ Recommendations.Min_XY = MaxLags
    /\ Recommendations.Min_X = MaxLags
    /\ Recommendations.Min_Y = MaxLags

\* C9: if one of the three recommendations contains a maximum lag passed by
\* the user, the warning is printed.
C9_MaxLagWarned ==
  (LagsDone /\ \E r \in {Recommendations.Min_XY, Recommendations.Min_X, Recommendations.Min_Y} :
                  r[1] = MaxLags[1] \/ r[2] = MaxLags[2]) =>
    Warned

\* the explained variance of the lags ( nb, na ): the sum clipped to 1, a
\* non-finite sum counting as full variance
Variance(i, j) == IF IsNaN(V[i][j]) \/ V[i][j] > One THEN One ELSE V[i][j]

\* the explained variance never decreases when a lag is increased
MonotoneVariance ==
  \A i \in Rows, j \in Cols :
    /\ (i + 1 \in Rows) => Variance(i, j) <= Variance(i + 1, j)
    /\ (j + 1 \in Cols) => Variance(i, j) <= Variance(i, j + 1)

\* C10: given such a variance, the filled grid is non-decreasing along every
\* row and every column, every cell is in [0, 1] and none is left at np.nan.
C10_GridMonotone ==
  (fn = "MaxLagsEstimator" /\ pc \in {"recommend", "done"} /\ MonotoneVariance) =>
    \A i \in Rows, j \in Cols :
      /\ ~IsNaN(Grid[i][j])
      /\ FGe(Grid[i][j], 0)
      /\ FGe(One, Grid[i][j])
      /\ (i + 1 \in Rows) => FGe(Grid[i + 1][j], Grid[i][j])
      /\ (j + 1 \in Cols) => FGe(Grid[i][j + 1], Grid[i][j])

\* C10 witness: a filled grid of at least 2 x 2 cells over a monotone variance,
\* not constant, with a cell set by the shortcut
C10_Witness ==
  /\ LagsDone
  /\ MonotoneVariance
  /\ MaxLags[1] >= 1
  /\ MaxLags[2] >= 1
  /\ Grid[0][0] # Grid[MaxLags[2]][MaxLags[1]]
  /\ Len(calls) < 3 * (MaxLags[1] + 1) * (MaxLags[2] + 1)

\* the cell ( i, j ) is visited before the cell ( a, b ): rows first
VisitedBefore(i, j, a, b) == i < a \/ (i = a /\ j < b)

\* the two cells read at line 393 for the current cell both hold exactly 1.0
BothPreviousOne ==
  /\ Grid[IF na > 0 THEN na - 1 ELSE 0][nb] = One
  /\ Grid[na][IF nb > 0 THEN nb - 1 ELSE 0] = One

\* the three calls that compute the cell of the lags ( b, a )
CellCalls(a, b) ==
  <<Call("Lagger", <<b, a>>), Call("Expander", <<b, a>>), Call("ComputeERR", <<b, a>>)>>

\* C11: the cells are visited row by row (na outer, nb inner) and each step of
\* the fill assigns the current cell only, which was still np.nan: 1.0 with no
\* call to the dictionary constructors or to ComputeERR exactly when the cells
\* ( max( na-1, 0 ), nb ) and ( na, max( nb-1, 0 ) ) both hold exactly 1.0, and
\* the clipped ERR sum of the lags ( nb, na ) after the three calls otherwise.
\* Over a monotone variance the filled grid is the grid of the clipped sums.
C11_FillStep ==
  (fn = "MaxLagsEstimator" /\ pc = "fill") =>
    /\ \A i \in Rows, j \in Cols :
         /\ IsNaN(Grid[i][j]) <=> ~VisitedBefore(i, j, na, nb)
         /\ (i # na \/ j # nb) => Grid'[i][j] = Grid[i][j]
    /\ IF BothPreviousOne
       THEN Grid'[na][nb] = One /\ calls' = calls
       ELSE Grid'[na][nb] = Variance(na, nb) /\ calls' = calls \o CellCalls(na, nb)
    /\ IF nb < MaxLags[1] THEN na' = na /\ nb' = nb + 1 /\ pc' = "fill"
       ELSE IF na < MaxLags[2] THEN na' = na + 1 /\ nb' = 0 /\ pc' = "fill"
       ELSE pc' = "recommend"
    /\ (pc' = "recommend" /\ MonotoneVariance) =>
         \A i \in Rows, j \in Cols : Grid'[i][j] = Variance(i, j)

C11_ShortcutRefinesFill == [][C11_FillStep]_vars

\* C11 witness: a 2 x 2 grid over a monotone variance whose last cell was set
\* by the shortcut, the first cell being below 1
C11_Witness ==
  /\ LagsDone
  /\ MonotoneVariance
  /\ MaxLags = <<1, 1>>
  /\ Grid[0][0] # One
  /\ Grid[1][1] = One
  /\ calls = CellCalls(0, 0) \o CellCalls(0, 1) \o CellCalls(1, 0)

\* C12: a cell with na = 0 or nb = 0 reads itself as a previous cell, which
\* is still np.nan, so it is never set by the shortcut: it is computed through
\* the three calls even when the cell before it holds 1.0. For na >= 1 and
\* nb >= 1 the two cells read were assigned before.
C12_FillStep ==
  (fn = "MaxLagsEstimator" /\ pc = "fill") =>
    /\ (na = 0) => IsNaN(Grid[IF na > 0 THEN na - 1 ELSE 0][nb])
    /\ (nb = 0) => IsNaN(Grid[na][IF nb > 0 THEN nb - 1 ELSE 0])
    /\ (na = 0 \/ nb = 0) => calls' = calls \o CellCalls(na, nb)
    /\ (calls' = calls) => (na >= 1 /\ nb >= 1)
    /\ (na >= 1 /\ nb >= 1) => (~IsNaN(Grid[na - 1][nb]) /\ ~IsNaN(Grid[na][nb - 1]))

C12_EdgesAlwaysComputed == [][C12_FillStep]_vars

\* C12 witness: the first cell holds 1.0 and the cells after it in row 0 and
\* below it in column 0 were computed all the same
C12_Witness ==
  /\ LagsDone
  /\ MaxLags = <<1, 1>>
  /\ Grid[0][0] = One
  /\ SubSeq(calls, 1, 9) = CellCalls(0, 0) \o CellCalls(0, 1) \o CellCalls(1, 0)

\* the cell ( i, j ) of the filled grid is above the threshold
Above(i, j) == ~IsNaN(Grid[i][j]) /\ Grid[i][j] > Thr

\* the rows whose first cell above the threshold is at nb >= 1, and the
\* columns whose first cell above the threshold is at na >= 1
KeptRows == {i \in Rows : ~Above(i, 0) /\ \E j \in Cols : Above(i, j)}
KeptCols == {j \in Cols : ~Above(0, j) /\ \E i \in Rows : Above(i, j)}

Duplicate(j) == \E i \in 1..(j - 1) : i <= Len(Psi) /\ Ds[i] = Ds[j]

\* a vector of zeros only
ZeroVector(v) == \A i \in 1..Len(v) : v[i] = 0

\* ComputeERR has returned
ERRDone == fn = "ComputeERR" /\ pcE = "done"

C14_DuplicateStep ==
  (fn = "ComputeERR" /\ pcE = "loop") =>
    /\ (col' = col + 1) =>
         /\ \A k \in 1..Len(Ds) : (k # col + 1) => ERR'[k] = ERR[k]
         /\ \A k \in (col + 2)..Len(Ds) : ERR'[k] = 0
         /\ Duplicate(col + 1) =>
              IF ZeroVector(Psi'[col + 1])
              THEN IsNaN(ERR'[col + 1])
              ELSE IsNaN(ERR'[col + 1]) \/ ERR'[col + 1] >= 0
    /\ (pcE' = "done") =>
         /\ ERR' = ERR
         /\ \A k \in (col + 1)..Len(Ds) : ERR[k] = 0

====
